---- MODULE Spec2Model ----
(***************************************************************************)
(* Closed knight's tour search of knights-tour.py: the move generator      *)
(* (is_valid_move, get_valid_moves, count_onward_moves, get_sorted_moves), *)
(* the closure check (is_closed_tour), the randomized walk                 *)
(* (KnightsTourLasVegas) and the recursive depth-first search              *)
(* (KnightsTourBacktracking), the latter with its call stack made explicit.*)
(***************************************************************************)
EXTENDS Integers, Sequences, FiniteSets, TLC

VARIABLES
    BOARD_SIZE,        \* side length of the board (module global, line 16)
    algorithm,         \* "las_vegas" | "backtracking" | "sorted_moves"
    startingPosition,  \* <<row, col>> argument of the search
    board,             \* [cell -> move index], 0 = unvisited
    move_count,        \* KnightsTourLasVegas: cells marked so far
    current,           \* KnightsTourLasVegas: <<current_x, current_y>>
    stack,             \* KnightsTourBacktracking: active backtrack() frames
    ret,               \* value and frame of the backtrack() call that just returned
    result,            \* return value of a get_sorted_moves query
    success,           \* success flag of the returned pair
    pc                 \* control point

vars == <<BOARD_SIZE, algorithm, startingPosition, board, move_count, current,
          stack, ret, result, success, pc>>

(***************************************************************************)
(* Bounds of the exploration.                                              *)
(***************************************************************************)
\* Boards of side 1..MaxExhaustiveN are searched from every start cell, the
\* random walk with every outcome of every draw.
MaxExhaustiveN == 3
\* On the larger boards the random walk's draws follow a fixed closed tour
\* except for the last FreeMoves draws, which take every outcome.
FreeMoves == 12
\* get_sorted_moves is queried on every 3 x 3 board and on the 5 x 5 boards
\* that have at most MaxOccupied visited cells.
MaxOccupied == 2

Range(s) == {s[i] : i \in DOMAIN s}

Cells(n) == (0 .. n - 1) \X (0 .. n - 1)

EmptyBoard(n) == [c \in Cells(n) |-> 0]

(***************************************************************************)
(* Move generator and closure check.                                       *)
(***************************************************************************)
KNIGHT_MOVES ==
    << <<2, 1>>, <<2, -1>>, <<-2, 1>>, <<-2, -1>>,
       <<1, 2>>, <<1, -2>>, <<-1, 2>>, <<-1, -2>> >>

\* Mutant: the destination is not tested for being unvisited.
is_valid_move_any_cell(x, y, b) ==
    /\ 0 <= x /\ x < BOARD_SIZE
    /\ 0 <= y /\ y < BOARD_SIZE

is_valid_move(x, y, b) ==
    /\ 0 <= x /\ x < BOARD_SIZE
    /\ 0 <= y /\ y < BOARD_SIZE
    /\ b[<<x, y>>] = 0

\* Mutant: the loop over KNIGHT_MOVES stops one offset short.
get_valid_moves_one_short(x, y, b) ==
    SelectSeq([i \in 1 .. Len(KNIGHT_MOVES) - 1 |->
                  <<x + KNIGHT_MOVES[i][1], y + KNIGHT_MOVES[i][2]>>],
              LAMBDA c : is_valid_move(c[1], c[2], b))

\* The destinations in KNIGHT_MOVES order, filtered by is_valid_move.
get_valid_moves(x, y, b) ==
    SelectSeq([i \in 1 .. Len(KNIGHT_MOVES) |->
                  <<x + KNIGHT_MOVES[i][1], y + KNIGHT_MOVES[i][2]>>],
              LAMBDA c : is_valid_move(c[1], c[2], b))

count_onward_moves(x, y, b) == Len(get_valid_moves(x, y, b))

\* Mutant: a sort that is not stable (equal keys come out in reverse order).
get_sorted_moves_unstable(x, y, b) ==
    LET valid_moves == get_valid_moves(x, y, b)
        key(i) == count_onward_moves(valid_moves[i][1], valid_moves[i][2], b)
        place(i) == Cardinality({j \in 1 .. Len(valid_moves) :
                                    \/ key(j) < key(i)
                                    \/ key(j) = key(i) /\ j >= i})
    IN  [p \in 1 .. Len(valid_moves) |->
            valid_moves[CHOOSE i \in 1 .. Len(valid_moves) : place(i) = p]]

\* valid_moves.sort(key=...): list.sort is stable, so the element at index
\* i ends up after every element with a smaller key and after the elements
\* with an equal key that precede it in valid_moves.
get_sorted_moves(x, y, b) ==
    LET valid_moves == get_valid_moves(x, y, b)
        key(i) == count_onward_moves(valid_moves[i][1], valid_moves[i][2], b)
        place(i) == Cardinality({j \in 1 .. Len(valid_moves) :
                                    \/ key(j) < key(i)
                                    \/ key(j) = key(i) /\ j <= i})
    IN  [p \in 1 .. Len(valid_moves) |->
            valid_moves[CHOOSE i \in 1 .. Len(valid_moves) : place(i) = p]]

\* Mutant: the two coordinate tests joined by "or".
is_closed_tour_or(current_pos, start_pos) ==
    \E i \in 1 .. Len(KNIGHT_MOVES) :
        \/ current_pos[1] + KNIGHT_MOVES[i][1] = start_pos[1]
        \/ current_pos[2] + KNIGHT_MOVES[i][2] = start_pos[2]

is_closed_tour(current_pos, start_pos) ==
    \E i \in 1 .. Len(KNIGHT_MOVES) :
        /\ current_pos[1] + KNIGHT_MOVES[i][1] = start_pos[1]
        /\ current_pos[2] + KNIGHT_MOVES[i][2] = start_pos[2]

total_squares == BOARD_SIZE * BOARD_SIZE

(***************************************************************************)
(* The runs explored.                                                      *)
(***************************************************************************)
\* A closed tour of the 6 x 6 board starting at <<0, 1>>.
Tour6 ==
    << <<0,1>>, <<2,0>>, <<4,1>>, <<5,3>>, <<4,5>>, <<2,4>>, <<0,5>>, <<1,3>>,
       <<2,5>>, <<0,4>>, <<1,2>>, <<0,0>>, <<2,1>>, <<4,0>>, <<5,2>>, <<3,3>>,
       <<5,4>>, <<3,5>>, <<1,4>>, <<0,2>>, <<1,0>>, <<3,1>>, <<5,0>>, <<4,2>>,
       <<2,3>>, <<4,4>>, <<3,2>>, <<5,1>>, <<3,0>>, <<1,1>>, <<0,3>>, <<1,5>>,
       <<3,4>>, <<5,5>>, <<4,3>>, <<2,2>> >>

\* A closed tour of the 8 x 8 board starting at <<0, 0>>.
Tour8 ==
    << <<0,0>>, <<2,1>>, <<4,0>>, <<6,1>>, <<7,3>>, <<6,5>>, <<7,7>>, <<5,6>>,
       <<7,5>>, <<6,7>>, <<4,6>>, <<2,7>>, <<0,6>>, <<1,4>>, <<0,2>>, <<1,0>>,
       <<3,1>>, <<5,0>>, <<7,1>>, <<5,2>>, <<6,0>>, <<7,2>>, <<6,4>>, <<7,6>>,
       <<5,7>>, <<3,6>>, <<1,7>>, <<0,5>>, <<2,6>>, <<0,7>>, <<1,5>>, <<0,3>>,
       <<1,1>>, <<3,0>>, <<5,1>>, <<7,0>>, <<6,2>>, <<7,4>>, <<6,6>>, <<4,7>>,
       <<5,5>>, <<6,3>>, <<4,4>>, <<2,3>>, <<4,2>>, <<5,4>>, <<3,5>>, <<4,3>>,
       <<2,2>>, <<0,1>>, <<2,0>>, <<4,1>>, <<5,3>>, <<3,4>>, <<1,3>>, <<3,2>>,
       <<2,4>>, <<4,5>>, <<3,7>>, <<1,6>>, <<0,4>>, <<2,5>>, <<3,3>>, <<1,2>> >>

KnownClosedTours == {Tour6, Tour8}

ExhaustiveRuns ==
    UNION {{<<n, s>> : s \in Cells(n)} : n \in 1 .. MaxExhaustiveN}

\* Runs on larger boards: <<board side, start cell>>.
LargerLasVegasRuns ==
    {<<4, <<0, 0>>>>, <<4, <<1, 1>>>>, <<6, <<0, 1>>>>, <<8, <<0, 0>>>>}

LargerBacktrackingRuns ==
    {<<4, <<0, 0>>>>, <<4, <<1, 1>>>>,
     <<6, <<0, 1>>>>, <<6, <<1, 0>>>>, <<6, <<1, 2>>>>,
     <<8, <<0, 0>>>>, <<8, <<1, 6>>>>}

\* The draws of random.choice a run explores: on a board with a scripted
\* tour the draw follows the script until FreeMoves draws remain.
RandomScript(n, s) ==
    IF n <= MaxExhaustiveN THEN <<>>
    ELSE IF \E t \in KnownClosedTours : Len(t) = n * n /\ t[1] = s
         THEN CHOOSE t \in KnownClosedTours : Len(t) = n * n /\ t[1] = s
         ELSE <<>>

RandomDraws(valid_moves) ==
    LET script == RandomScript(BOARD_SIZE, startingPosition)
    IN  IF script # <<>> /\ move_count < total_squares - FreeMoves
        THEN Range(valid_moves) \cap {script[move_count + 1]}
        ELSE Range(valid_moves)

(***************************************************************************)
(* KnightsTourLasVegas.                                                    *)
(***************************************************************************)
Mark(b, cell, k) == [b EXCEPT ![cell] = k]

InitLasVegas ==
    /\ algorithm = "las_vegas"
    /\ \E run \in ExhaustiveRuns \cup LargerLasVegasRuns :
          /\ BOARD_SIZE = run[1]
          /\ startingPosition = run[2]
    /\ move_count = 1
    /\ board = Mark(EmptyBoard(BOARD_SIZE), startingPosition, 1)
    /\ current = startingPosition
    /\ stack = <<>>
    /\ ret = <<>>
    /\ result = <<>>
    /\ success = FALSE
    /\ pc = "lv_loop"

\* One iteration of the while loop that makes a move (lines 121-132).
LasVegasMove ==
    /\ pc = "lv_loop"
    /\ move_count < total_squares
    /\ LET valid_moves == get_valid_moves(current[1], current[2], board)
       IN  /\ valid_moves # <<>>
           /\ \E next \in RandomDraws(valid_moves) :
                 /\ move_count' = move_count + 1
                 /\ board' = Mark(board, next, move_count + 1)
                 /\ current' = next
    /\ UNCHANGED <<BOARD_SIZE, algorithm, startingPosition, stack, ret, result,
                   success, pc>>

\* Mutant: "continue" in place of "break": the loop spins at a dead end.
LasVegasStuck_no_break ==
    /\ pc = "lv_loop"
    /\ move_count < total_squares
    /\ get_valid_moves(current[1], current[2], board) = <<>>
    /\ UNCHANGED vars

\* The iteration that finds no valid move and breaks (lines 124-126).
LasVegasStuck ==
    /\ pc = "lv_loop"
    /\ move_count < total_squares
    /\ get_valid_moves(current[1], current[2], board) = <<>>
    /\ pc' = "lv_return"
    /\ UNCHANGED <<BOARD_SIZE, algorithm, startingPosition, board, move_count,
                   current, stack, ret, result, success>>

\* The loop condition fails: every square is marked (line 121).
LasVegasFull ==
    /\ pc = "lv_loop"
    /\ ~(move_count < total_squares)
    /\ pc' = "lv_return"
    /\ UNCHANGED <<BOARD_SIZE, algorithm, startingPosition, board, move_count,
                   current, stack, ret, result, success>>

\* Mutant: success is decided by the move count alone.
LasVegasReturn_no_closure ==
    /\ pc = "lv_return"
    /\ success' = (move_count = total_squares)
    /\ pc' = "done"
    /\ UNCHANGED <<BOARD_SIZE, algorithm, startingPosition, board, move_count,
                   current, stack, ret, result>>

\* Lines 134-138.
LasVegasReturn ==
    /\ pc = "lv_return"
    /\ success' = (move_count = total_squares
                   /\ is_closed_tour(current, startingPosition))
    /\ pc' = "done"
    /\ UNCHANGED <<BOARD_SIZE, algorithm, startingPosition, board, move_count,
                   current, stack, ret, result>>

LasVegasNext ==
    \/ LasVegasMove
    \/ LasVegasStuck
    \/ LasVegasFull
    \/ LasVegasReturn

SpecLasVegas == InitLasVegas /\ [][LasVegasNext]_vars

(***************************************************************************)
(* KnightsTourBacktracking.  stack holds the active calls of backtrack(),  *)
(* the innermost last.  A frame records the call's arguments, the list     *)
(* sorted_moves once computed, the position i of the for loop in it, and   *)
(* the board as it was when the call was entered (kept to state the        *)
(* call's frame condition; the program does not read it).                  *)
(***************************************************************************)
Frame(cell, count, b) ==
    [pos |-> cell, move_count |-> count, sorted_moves |-> <<>>, i |-> 0,
     board_on_entry |-> b]

Top == stack[Len(stack)]

Pop == SubSeq(stack, 1, Len(stack) - 1)

SetTop(f) == [stack EXCEPT ![Len(stack)] = f]

\* Mutant: the move is not undone.
Unmark_nothing(b, cell) == b

Unmark(b, cell) == [b EXCEPT ![cell] = 0]

InitBacktracking ==
    /\ algorithm = "backtracking"
    /\ \E run \in ExhaustiveRuns \cup LargerBacktrackingRuns :
          /\ BOARD_SIZE = run[1]
          /\ startingPosition = run[2]
    /\ board = Mark(EmptyBoard(BOARD_SIZE), startingPosition, 1)
    /\ stack = <<Frame(startingPosition, 1, board)>>
    /\ move_count = 0
    /\ current = startingPosition
    /\ ret = <<>>
    /\ result = <<>>
    /\ success = FALSE
    /\ pc = "bt_call"

\* Mutant: the base case returns True without the closure check.
BacktrackBase_no_closure ==
    /\ pc = "bt_call"
    /\ Top.move_count = total_squares
    /\ ret' = <<[value |-> TRUE, frame |-> Top]>>
    /\ stack' = Pop
    /\ pc' = "bt_returned"
    /\ UNCHANGED <<BOARD_SIZE, algorithm, startingPosition, board, move_count,
                   current, result, success>>

\* Base case (lines 171-172): the call returns the closure check.
BacktrackBase ==
    /\ pc = "bt_call"
    /\ Top.move_count = total_squares
    /\ ret' = <<[value |-> is_closed_tour(Top.pos, startingPosition),
                 frame |-> Top]>>
    /\ stack' = Pop
    /\ pc' = "bt_returned"
    /\ UNCHANGED <<BOARD_SIZE, algorithm, startingPosition, board, move_count,
                   current, result, success>>

\* Line 175: the candidates in Warnsdorff order; the loop starts.
BacktrackSort ==
    /\ pc = "bt_call"
    /\ Top.move_count # total_squares
    /\ stack' = SetTop([Top EXCEPT
                           !.sorted_moves =
                               get_sorted_moves(Top.pos[1], Top.pos[2], board),
                           !.i = 1])
    /\ pc' = "bt_loop"
    /\ UNCHANGED <<BOARD_SIZE, algorithm, startingPosition, board, move_count,
                   current, ret, result, success>>

\* Mutant: the candidate is marked with move_count instead of move_count + 1.
BacktrackTry_same_index ==
    /\ pc = "bt_loop"
    /\ Top.i <= Len(Top.sorted_moves)
    /\ LET next == Top.sorted_moves[Top.i]
       IN  /\ board' = Mark(board, next, Top.move_count)
           /\ stack' = Append(stack, Frame(next, Top.move_count + 1, board'))
    /\ pc' = "bt_call"
    /\ UNCHANGED <<BOARD_SIZE, algorithm, startingPosition, move_count, current,
                   ret, result, success>>

\* Lines 177-182: mark the next candidate and call backtrack on it.
BacktrackTry ==
    /\ pc = "bt_loop"
    /\ Top.i <= Len(Top.sorted_moves)
    /\ LET next == Top.sorted_moves[Top.i]
       IN  /\ board' = Mark(board, next, Top.move_count + 1)
           /\ stack' = Append(stack, Frame(next, Top.move_count + 1, board'))
    /\ pc' = "bt_call"
    /\ UNCHANGED <<BOARD_SIZE, algorithm, startingPosition, move_count, current,
                   ret, result, success>>

\* Lines 188-189: the loop is over, the call returns False.
BacktrackExhausted ==
    /\ pc = "bt_loop"
    /\ Top.i > Len(Top.sorted_moves)
    /\ ret' = <<[value |-> FALSE, frame |-> Top]>>
    /\ stack' = Pop
    /\ pc' = "bt_returned"
    /\ UNCHANGED <<BOARD_SIZE, algorithm, startingPosition, board, move_count,
                   current, result, success>>

\* Lines 182-183: the inner call returned True, so does the caller.
BacktrackPropagate ==
    /\ pc = "bt_returned"
    /\ stack # <<>>
    /\ ret[1].value
    /\ ret' = <<[value |-> TRUE, frame |-> Top]>>
    /\ stack' = Pop
    /\ UNCHANGED <<BOARD_SIZE, algorithm, startingPosition, board, move_count,
                   current, result, success, pc>>

\* Mutant: "return False" inside the loop, so only the first candidate is tried.
BacktrackUndo_give_up ==
    /\ pc = "bt_returned"
    /\ stack # <<>>
    /\ ~ret[1].value
    /\ board' = Unmark(board, Top.sorted_moves[Top.i])
    /\ stack' = SetTop([Top EXCEPT !.i = Len(Top.sorted_moves) + 1])
    /\ pc' = "bt_loop"
    /\ UNCHANGED <<BOARD_SIZE, algorithm, startingPosition, move_count, current,
                   ret, result, success>>

\* Lines 182-186: the inner call returned False; undo the move, next candidate.
BacktrackUndo ==
    /\ pc = "bt_returned"
    /\ stack # <<>>
    /\ ~ret[1].value
    /\ board' = Unmark(board, Top.sorted_moves[Top.i])
    /\ stack' = SetTop([Top EXCEPT !.i = Top.i + 1])
    /\ pc' = "bt_loop"
    /\ UNCHANGED <<BOARD_SIZE, algorithm, startingPosition, move_count, current,
                   ret, result, success>>

\* Lines 196-198: the outermost call returned.
BacktrackingReturn ==
    /\ pc = "bt_returned"
    /\ stack = <<>>
    /\ success' = ret[1].value
    /\ pc' = "done"
    /\ UNCHANGED <<BOARD_SIZE, algorithm, startingPosition, board, move_count,
                   current, stack, ret, result>>

BacktrackingNext ==
    \/ BacktrackBase
    \/ BacktrackSort
    \/ BacktrackTry
    \/ BacktrackExhausted
    \/ BacktrackPropagate
    \/ BacktrackUndo
    \/ BacktrackingReturn

SpecBacktracking == InitBacktracking /\ [][BacktrackingNext]_vars

(***************************************************************************)
(* Both searches, as main() and run_success_test() call them.              *)
(***************************************************************************)
Init == InitLasVegas \/ InitBacktracking

Next == LasVegasNext \/ BacktrackingNext

Spec == Init /\ [][Next]_vars

\* Neither search waits for anything: a step that can be taken is taken.
FairSpec == Spec /\ WF_vars(Next)

(***************************************************************************)
(* get_sorted_moves as a query on an arbitrary board and cell.             *)
(***************************************************************************)
QueryBoards ==
    [Cells(3) -> {0, 1}]
        \cup UNION {{[c \in Cells(5) |-> IF c \in occ THEN 1 ELSE 0]} :
                       occ \in {o \in SUBSET Cells(5) :
                                   Cardinality(o) <= MaxOccupied}}

InitQuery ==
    /\ algorithm = "sorted_moves"
    /\ board \in QueryBoards
    /\ BOARD_SIZE = IF DOMAIN board = Cells(3) THEN 3 ELSE 5
    /\ current \in Cells(BOARD_SIZE)
    /\ startingPosition = current
    /\ move_count = 0
    /\ stack = <<Frame(current, 0, board)>>
    /\ ret = <<>>
    /\ result = <<>>
    /\ success = FALSE
    /\ pc = "query"

SortedMovesQuery ==
    /\ pc = "query"
    /\ result' = get_sorted_moves(current[1], current[2], board)
    /\ pc' = "done"
    /\ UNCHANGED <<BOARD_SIZE, algorithm, startingPosition, board, move_count,
                   current, stack, ret, success>>

SpecQuery == InitQuery /\ [][SortedMovesQuery]_vars

(***************************************************************************)
(* Vocabulary of the properties, stated on the board alone.                *)
(***************************************************************************)
Abs(n) == IF n < 0 THEN -n ELSE n

\* Two cells one knight offset apart.
KnightOffsetApart(a, c) ==
    {Abs(a[1] - c[1]), Abs(a[2] - c[2])} = {1, 2}

CellsHolding(k) == {c \in DOMAIN board : board[c] = k}

MarkedCells == {c \in DOMAIN board : board[c] > 0}

\* The board holds each of 1..m in exactly one cell and nothing else positive.
HoldsExactly(m) ==
    /\ \A k \in 1 .. m : Cardinality(CellsHolding(k)) = 1
    /\ Cardinality(MarkedCells) = m

\* Cells holding consecutive values are one knight offset apart.
ConsecutiveAreKnightMoves ==
    \A a \in MarkedCells : \A c \in MarkedCells :
        board[c] = board[a] + 1 => KnightOffsetApart(a, c)

OnlyStartMarked ==
    \A c \in DOMAIN board :
        board[c] = IF c = startingPosition THEN 1 ELSE 0

Returned(alg) == pc = "done" /\ algorithm = alg

\* C1: a successful KnightsTourBacktracking returns a board that holds each
\* of 1..N*N exactly once, with 1 at the start, cells holding k and k+1 one
\* knight offset apart, and the cell holding N*N one knight offset from the
\* start.
C1_SuccessIsClosedTour ==
    (Returned("backtracking") /\ success) =>
        /\ DOMAIN board = Cells(BOARD_SIZE)
        /\ HoldsExactly(BOARD_SIZE * BOARD_SIZE)
        /\ board[startingPosition] = 1
        /\ ConsecutiveAreKnightMoves
        /\ \A c \in CellsHolding(BOARD_SIZE * BOARD_SIZE) :
              KnightOffsetApart(c, startingPosition)

\* A successful search of the 8 x 8 board, from a start where the search
\* had to backtrack.
C1_Witness ==
    /\ Returned("backtracking") /\ success
    /\ BOARD_SIZE = 8
    /\ startingPosition = <<1, 6>>

(***************************************************************************)
(* Whether a closed tour from a start cell exists, decided without the     *)
(* search: by a known closed tour of the board turned to begin at the      *)
(* start, or else by trying every path.                                    *)
(***************************************************************************)
TurnedTo(tour, s) ==
    LET at == CHOOSE k \in 1 .. Len(tour) : tour[k] = s
    IN  [k \in 1 .. Len(tour) |-> tour[((at + k - 2) % Len(tour)) + 1]]

IsClosedTourFrom(n, tour, s) ==
    /\ Len(tour) = n * n
    /\ Range(tour) = Cells(n)
    /\ tour[1] = s
    /\ \A k \in 1 .. Len(tour) - 1 : KnightOffsetApart(tour[k], tour[k + 1])
    /\ KnightOffsetApart(tour[Len(tour)], s)

RECURSIVE PathCloses(_, _, _, _)
PathCloses(n, visited, cell, s) ==
    IF Cardinality(visited) = n * n
    THEN KnightOffsetApart(cell, s)
    ELSE \E c \in Cells(n) \ visited :
            /\ KnightOffsetApart(cell, c)
            /\ PathCloses(n, visited \cup {c}, c, s)

ClosedTourExists(n, s) ==
    \/ \E t \in KnownClosedTours :
          /\ s \in Range(t)
          /\ IsClosedTourFrom(n, TurnedTo(t, s), s)
    \/ /\ \A t \in KnownClosedTours : Len(t) # n * n
       /\ PathCloses(n, {s}, s, s)

\* C3: KnightsTourBacktracking returns success=false only if no closed tour
\* from the start exists on the board; whenever one exists it returns
\* success=true.
C3_BacktrackingComplete ==
    Returned("backtracking") =>
        (~success => ~ClosedTourExists(BOARD_SIZE, startingPosition))

\* A board with a closed tour from the start, found after 1331 calls.
C3_Witness ==
    /\ Returned("backtracking")
    /\ BOARD_SIZE = 6 /\ startingPosition = <<1, 2>>
    /\ ClosedTourExists(BOARD_SIZE, startingPosition)
    /\ success

\* C4: a failed KnightsTourBacktracking returns the board with 1 at the start
\* and 0 elsewhere, and every backtrack call that returns False leaves the
\* board as it was when the call was entered.
C4_FailureRestoresBoard ==
    /\ (Returned("backtracking") /\ ~success) => OnlyStartMarked
    /\ (algorithm = "backtracking" /\ pc = "bt_returned" /\ ~ret[1].value) =>
          board = ret[1].frame.board_on_entry

\* The whole tree of the 4 x 4 board exhausted.
C4_Witness ==
    /\ Returned("backtracking") /\ ~success
    /\ BOARD_SIZE = 4
    /\ ~ret[1].value /\ ret[1].frame.i > 2

\* C9: after every mark and every unmark of a KnightsTourBacktracking run,
\* the positive values on the board are exactly 1..m for the depth m, each
\* in one cell, the cell holding k is the k-th cell of the path of active
\* calls from the start, and consecutive path cells are one knight offset
\* apart.
C9_BoardIsStackPath ==
    (algorithm = "backtracking" /\ pc \in {"bt_call", "bt_loop"}) =>
        /\ HoldsExactly(Len(stack))
        /\ stack[1].pos = startingPosition
        /\ \A k \in 1 .. Len(stack) :
              /\ stack[k].move_count = k
              /\ board[stack[k].pos] = k
        /\ \A k \in 1 .. Len(stack) - 1 :
              KnightOffsetApart(stack[k].pos, stack[k + 1].pos)

\* Just after an unmark, twenty calls deep on the 6 x 6 board.
C9_Witness ==
    /\ algorithm = "backtracking" /\ pc = "bt_loop"
    /\ BOARD_SIZE = 6
    /\ Len(stack) >= 20 /\ Top.i > 1

\* The cell marked last: the one holding the highest value.
LastMarked == CHOOSE c \in MarkedCells : \A d \in MarkedCells : board[d] <= board[c]

AllMarked == Cardinality(MarkedCells) = BOARD_SIZE * BOARD_SIZE

\* C5: KnightsTourLasVegas returns success=true exactly when all N*N cells
\* are marked and the cell marked last is one knight offset from the start;
\* a failed run has fewer than N*N marked cells, or all of them with the
\* closure failing.
C5_LasVegasSuccessFlag ==
    Returned("las_vegas") =>
        /\ success = (AllMarked /\ KnightOffsetApart(LastMarked, startingPosition))
        /\ ~success =>
              \/ Cardinality(MarkedCells) < BOARD_SIZE * BOARD_SIZE
              \/ AllMarked /\ ~KnightOffsetApart(LastMarked, startingPosition)

\* A full 8 x 8 board whose last cell is not a knight offset from the start.
C5_Witness ==
    /\ Returned("las_vegas") /\ ~success
    /\ BOARD_SIZE = 8 /\ AllMarked

\* A run of the random walk that returns a closed tour.
C5_SuccessReached ==
    /\ Returned("las_vegas") /\ success
    /\ BOARD_SIZE = 8 /\ AllMarked

\* C6: in a run of KnightsTourLasVegas a cell whose value is positive never
\* changes value again, and no more than N*N cells are marked.
C6_NoCellMarkedTwice ==
    /\ [][algorithm = "las_vegas" =>
             \A c \in DOMAIN board : board[c] > 0 => board'[c] = board[c]]_vars
    /\ [](algorithm = "las_vegas" =>
             /\ move_count <= BOARD_SIZE * BOARD_SIZE
             /\ Cardinality(MarkedCells) = move_count)

\* The walk has marked every cell of the 6 x 6 board.
C6_Witness ==
    /\ algorithm = "las_vegas" /\ pc = "lv_loop"
    /\ BOARD_SIZE = 6 /\ move_count = 36

OnwardDegree(c) ==
    LET occupied == [board EXCEPT ![c] = 1]
    IN  Cardinality({d \in Cells(BOARD_SIZE) :
                        KnightOffsetApart(c, d) /\ occupied[d] = 0})

\* The place in KNIGHT_MOVES of the offset that leads from one cell to another.
OffsetIndex(from, to) ==
    CHOOSE i \in 1 .. Len(KNIGHT_MOVES) :
        /\ from[1] + KNIGHT_MOVES[i][1] = to[1]
        /\ from[2] + KNIGHT_MOVES[i][2] = to[2]

\* C7: get_sorted_moves returns exactly the in-bounds, value-0 cells one
\* knight offset from (x,y), each once, in ascending order of onward degree,
\* candidates of equal onward degree in the order of KNIGHT_MOVES, and
\* leaves the board unchanged.
C7_SortedMoves ==
    (algorithm = "sorted_moves" /\ pc = "done") =>
        /\ Range(result) =
              {c \in Cells(BOARD_SIZE) :
                  KnightOffsetApart(current, c) /\ board[c] = 0}
        /\ Len(result) = Cardinality(Range(result))
        /\ \A p \in 1 .. Len(result) : \A q \in 1 .. Len(result) :
              p < q =>
                  /\ OnwardDegree(result[p]) <= OnwardDegree(result[q])
                  /\ OnwardDegree(result[p]) = OnwardDegree(result[q]) =>
                        OffsetIndex(current, result[p])
                            < OffsetIndex(current, result[q])
        /\ board = stack[1].board_on_entry

\* A query whose answer holds candidates of equal and of different degree.
C7_Witness ==
    /\ algorithm = "sorted_moves" /\ pc = "done"
    /\ Len(result) >= 4
    /\ \E p \in 1 .. Len(result) - 1 :
          OnwardDegree(result[p]) = OnwardDegree(result[p + 1])
    /\ \E p \in 1 .. Len(result) - 1 :
          /\ OnwardDegree(result[p]) < OnwardDegree(result[p + 1])
          /\ OffsetIndex(current, result[p]) > OffsetIndex(current, result[p + 1])

\* C8: on a board with N < 3 neither search gets stuck before it returns,
\* KnightsTourBacktracking never marks a cell other than the start and
\* returns success=false, also on the single-cell board.
C8_DegenerateBoards ==
    BOARD_SIZE < 3 =>
        /\ pc # "done" => ENABLED Next
        /\ algorithm = "backtracking" => OnlyStartMarked
        /\ Returned("backtracking") => ~success

\* KnightsTourBacktracking has returned on the single-cell board.
C8_Witness ==
    /\ Returned("backtracking")
    /\ BOARD_SIZE = 1
    /\ ~success

====
